---- MODULE Spec2Model ----
(***************************************************************************)
(* Model of src/extract_bmc_bye_laws.py: the bye-law extraction pipeline.  *)
(*                                                                         *)
(* One process run is: module import (DEFAULT_MODEL_ID is bound), then     *)
(* main(): load_dotenv, path resolution, existence check, _read_text,      *)
(* extract (build_prompt, build_examples, lx.extract), save_results,       *)
(* visualize, two prints.  The file system and the shell environment       *)
(* outlive a run; everything else is per process.                          *)
(*                                                                         *)
(* Text is a sequence of Unicode code points, a file is a sequence of      *)
(* bytes, a path is a sequence of components.  The collaborators the       *)
(* script calls (lx.extract, lx.io.save_annotated_documents, lx.visualize, *)
(* pypdf) are outside the repository: each call either returns or raises,  *)
(* and the serializer may also return having produced no file, the case    *)
(* save_results itself tests for.                                          *)
(***************************************************************************)
EXTENDS Integers, Sequences, FiniteSets, TLC

VARIABLES
    shellEnv,          \* environment the process is started with
    dotenvFile,        \* contents of the .env file load_dotenv reads
    dirs,              \* directories on disk
    files,             \* regular files on disk: path -> content
    run,               \* number of process runs started so far
    pc,                \* position of the current run
    osEnviron,         \* os.environ of the current process
    DEFAULT_MODEL_ID,  \* module global, bound at import
    PdfReader,         \* TRUE iff the pypdf import succeeded
    input_path, output_dir, output_html,   \* locals of main
    text,              \* main: text
    request,           \* arguments of the lx.extract call
    result,            \* main: result
    jsonl_path,        \* main: jsonl_path
    error,             \* the exception that ended the run
    stages,            \* pipeline stages executed in this run, with outcome
    reads,             \* input file reads in this run
    written,           \* paths of the files written in this run
    madeDirs,          \* directories created in this run
    stdout,            \* lines printed in this run
    prompt, examples,  \* extract: prompt, examples
    calls,             \* lx.extract calls in this run
    filesAtStart       \* the files on disk when this run started

vars == <<shellEnv, dotenvFile, dirs, files, run, pc, osEnviron,
          DEFAULT_MODEL_ID, PdfReader, input_path, output_dir, output_html,
          text, request, result, jsonl_path, error, stages, reads, written,
          madeDirs, stdout, prompt, examples, calls, filesAtStart>>

-----------------------------------------------------------------------------
(* Bounds of the model *)

MaxRuns == 2          \* process runs in one behaviour
MaxExtractions == 1   \* extractions in one backend result
MaxBytes == 3         \* bytes of a text input in SpecRead
MaxPages == 3         \* pages of a PDF input in SpecRead

-----------------------------------------------------------------------------
(* Generic helpers *)

Range(s) == {s[i] : i \in 1..Len(s)}

SeqsUpTo(S, n) == UNION {[1..k -> S] : k \in 0..n}

Prefixes(p) == {SubSeq(p, 1, k) : k \in 1..Len(p)}

Parent(p) == SubSeq(p, 1, Len(p) - 1)

IsSubstring(s, t) ==
    \E i \in 0..(Len(t) - Len(s)) : SubSeq(t, i + 1, i + Len(s)) = s

RECURSIVE IsSubsequence(_, _)
IsSubsequence(s, t) ==
    IF s = <<>> THEN TRUE
    ELSE IF t = <<>> THEN FALSE
    ELSE IF Head(s) = Head(t) THEN IsSubsequence(Tail(s), Tail(t))
    ELSE IsSubsequence(s, Tail(t))

RECURSIVE Count(_, _)
Count(x, s) ==
    IF s = <<>> THEN 0
    ELSE (IF Head(s) = x THEN 1 ELSE 0) + Count(x, Tail(s))

None == [kind |-> "None"]

-----------------------------------------------------------------------------
(* Environment: os.getenv and python-dotenv's load_dotenv *)

Unset == "<unset>"

VarNames == {"BMC_BYELAWS_PATH", "OUTPUT_DIR", "LANGEXTRACT_MODEL_ID"}

\* os.getenv(name, default)
getenv(environ, name, default) ==
    IF environ[name] # Unset THEN environ[name] ELSE default

\* load_dotenv(): override=False, a variable already in os.environ is kept
load_dotenv(environ, dotfile) ==
    [v \in VarNames |-> IF environ[v] # Unset THEN environ[v] ELSE dotfile[v]]

-----------------------------------------------------------------------------
(* Paths: pathlib.Path(...), .resolve(), .suffix, .exists(), .mkdir() *)

Cwd == <<"/", "work">>

\* Path(s): the components of the path strings the model uses
PathOf(s) ==
    CASE s = "tests/sample_bmc_bye_laws.txt" -> <<"tests", "sample_bmc_bye_laws.txt">>
      [] s = "docs/bye_laws.PDF"             -> <<"docs", "bye_laws.PDF">>
      [] s = "outputs"                       -> <<"outputs">>
      [] s = "build/out"                     -> <<"build", "out">>
      [] s = "/srv/reports"                  -> <<"/", "srv", "reports">>

\* Path.resolve(): a relative path is taken from the working directory
resolve(p) == IF Head(p) = "/" THEN p ELSE Cwd \o p

\* Path.suffix.lower() of the file names the model uses
suffix_lower(p) ==
    CASE p[Len(p)] = "bye_laws.PDF"            -> ".pdf"
      [] p[Len(p)] = "sample_bmc_bye_laws.txt" -> ".txt"
      [] OTHER                                 -> ""

\* Path.exists()
exists(ds, fs, p) == p \in ds \/ p \in DOMAIN fs

\* Path.mkdir(parents, exist_ok): the directories afterwards, or the error
mkdir(ds, fs, p, parents, exist_ok) ==
    IF exists(ds, fs, p)
    THEN IF exist_ok /\ p \in ds
         THEN [ok |-> TRUE, dirs |-> ds, error |-> "-"]
         ELSE [ok |-> FALSE, dirs |-> ds, error |-> "FileExistsError"]
    ELSE IF Parent(p) \in ds
    THEN [ok |-> TRUE, dirs |-> ds \cup {p}, error |-> "-"]
    ELSE IF parents /\ \A q \in Prefixes(p) : q \notin DOMAIN fs
    THEN [ok |-> TRUE, dirs |-> ds \cup Prefixes(p), error |-> "-"]
    ELSE [ok |-> FALSE, dirs |-> ds,
          error |-> IF parents THEN "NotADirectoryError" ELSE "FileNotFoundError"]

-----------------------------------------------------------------------------
(* Text decoding: Path.read_text(encoding="utf-8", errors=...)             *)
(* A text is a sequence of code points, a file a sequence of bytes.        *)

REPL == 65533   \* U+FFFD, the marker errors="replace" substitutes
CR == 13
LF == 10

IsCont(b) == b >= 128 /\ b <= 191

\* Number of bytes of the character a lead byte announces; 0: never a lead
SeqLen(b) ==
    IF b < 128 THEN 1
    ELSE IF b >= 194 /\ b <= 223 THEN 2
    ELSE IF b >= 224 /\ b <= 239 THEN 3
    ELSE IF b >= 240 /\ b <= 244 THEN 4
    ELSE 0

\* The second byte of a sequence is further restricted for some lead bytes
SecondOk(b1, b2) ==
    CASE b1 = 224 -> b2 >= 160 /\ b2 <= 191
      [] b1 = 237 -> b2 >= 128 /\ b2 <= 159
      [] b1 = 240 -> b2 >= 144 /\ b2 <= 191
      [] b1 = 244 -> b2 >= 128 /\ b2 <= 143
      [] OTHER    -> IsCont(b2)

\* Length of the longest prefix of bs that is the start of one valid
\* sequence (bs non-empty, SeqLen(bs[1]) = n > 0)
RECURSIVE ValidRun(_, _, _)
ValidRun(bs, n, k) ==
    IF k >= n \/ k >= Len(bs) THEN k
    ELSE IF (k = 1 /\ SecondOk(bs[1], bs[2])) \/ (k > 1 /\ IsCont(bs[k + 1]))
    THEN ValidRun(bs, n, k + 1)
    ELSE k

CodePoint(bs, n) ==
    CASE n = 1 -> bs[1]
      [] n = 2 -> (bs[1] - 192) * 64 + (bs[2] - 128)
      [] n = 3 -> (bs[1] - 224) * 4096 + (bs[2] - 128) * 64 + (bs[3] - 128)
      [] n = 4 -> (bs[1] - 240) * 262144 + (bs[2] - 128) * 4096
                  + (bs[3] - 128) * 64 + (bs[4] - 128)

\* bytes.decode("utf-8", errors): an undecodable run of bytes is skipped
\* under "ignore" and becomes one U+FFFD under "replace"
RECURSIVE decode_utf8(_, _)
decode_utf8(bs, errors) ==
    IF bs = <<>> THEN <<>>
    ELSE LET n == SeqLen(bs[1])
             k == IF n = 0 THEN 1 ELSE ValidRun(bs, n, 1)
             rest == SubSeq(bs, k + 1, Len(bs))
         IN  IF n > 0 /\ k = n
             THEN <<CodePoint(bs, n)>> \o decode_utf8(rest, errors)
             ELSE (IF errors = "replace" THEN <<REPL>> ELSE <<>>)
                  \o decode_utf8(rest, errors)

\* Text mode, newline=None: "\r\n" and "\r" are read as "\n"
RECURSIVE translate_newlines(_)
translate_newlines(cs) ==
    IF cs = <<>> THEN <<>>
    ELSE IF Head(cs) = CR
    THEN IF Len(cs) >= 2 /\ cs[2] = LF
         THEN <<LF>> \o translate_newlines(SubSeq(cs, 3, Len(cs)))
         ELSE <<LF>> \o translate_newlines(Tail(cs))
    ELSE <<Head(cs)>> \o translate_newlines(Tail(cs))

\* input_path.read_text(encoding="utf-8", errors="replace")
read_text_replace(bs) == translate_newlines(decode_utf8(bs, "replace"))

\* input_path.read_text(encoding="utf-8", errors="ignore")
read_text(bs) == translate_newlines(decode_utf8(bs, "ignore"))

\* str.encode("utf-8") of a text without surrogates
RECURSIVE encode_utf8(_)
encode_utf8(cs) ==
    IF cs = <<>> THEN <<>>
    ELSE LET c == Head(cs)
         IN  (IF c < 128 THEN <<c>>
              ELSE IF c < 2048 THEN <<192 + (c \div 64), 128 + (c % 64)>>
              ELSE IF c < 65536
              THEN <<224 + (c \div 4096), 128 + ((c \div 64) % 64), 128 + (c % 64)>>
              ELSE <<240 + (c \div 262144), 128 + ((c \div 4096) % 64),
                     128 + ((c \div 64) % 64), 128 + (c % 64)>>)
             \o encode_utf8(Tail(cs))

-----------------------------------------------------------------------------
(* PDF reading: the loop of _read_text over reader.pages *)

\* What page.extract_text() does on one page
PageText(s) == [kind |-> "text", text |-> s]
PageNone == [kind |-> "none", text |-> <<>>]
PageRaises == [kind |-> "raise", text |-> <<>>]

\* try: pages.append(page.extract_text() or "") except Exception: pages.append("")
page_text(page) == IF page.kind = "text" THEN page.text ELSE <<>>

\* "\n\n".join(pages)
RECURSIVE join_pages(_)
join_pages(ps) ==
    IF ps = <<>> THEN <<>>
    ELSE IF Len(ps) = 1 THEN ps[1]
    ELSE ps[1] \o <<LF, LF>> \o join_pages(Tail(ps))

RECURSIVE DropRaised(_)
DropRaised(pages) ==
    IF pages = <<>> THEN <<>>
    ELSE (IF Head(pages).kind = "raise" THEN <<>> ELSE <<Head(pages)>>)
         \o DropRaised(Tail(pages))

\* the except branch skipping the page instead of appending ""
read_pdf_skipping(pages) ==
    LET kept == DropRaised(pages)
    IN  join_pages([i \in 1..Len(kept) |-> page_text(kept[i])])

\* _read_text on an opened PDF
read_pdf(pages) == join_pages([i \in 1..Len(pages) |-> page_text(pages[i])])

TextFile(bs) == [kind |-> "bytes", bytes |-> bs, pages |-> <<>>]
PdfFile(ps) == [kind |-> "pdf", bytes |-> <<>>, pages |-> ps]

-----------------------------------------------------------------------------
(* Prompt and examples *)

\* The vocabulary build_prompt announces ("Allowed 'extraction_class' values")
AllowedClasses ==
    {"section", "clause", "definition", "fsi_rule", "setback_rule",
     "height_rule", "penalty"}

build_prompt ==
    [instruction |-> "Extract structured entities from BMC (MCGM) building bye-laws.",
     key |-> "extractions",
     allowed |-> AllowedClasses,
     sample_classes |-> <<"section", "fsi_rule", "setback_rule", "height_rule">>]

Example(class, span, attrs) ==
    [extraction_class |-> class, extraction_text |-> span, attributes |-> attrs]

\* build_examples with the last Extraction of the list left out
build_examples_short ==
    << [text |-> "Section 10: FSI. In Residential Zone (R), ...",
        extractions |->
          << Example("section", "Section 10: FSI", {}),
             Example("fsi_rule", "FSI up to 2.0 is permitted",
                     {<<"max_fsi", "2.0">>, <<"zone", "R">>}),
             Example("setback_rule",
                     "Front setback 6 m for roads > 18 m; side and rear 3 m",
                     {<<"front", "6 m">>, <<"side", "3 m">>,
                      <<"rear", "3 m">>, <<"units", "m">>}),
             Example("height_rule", "Max building height 70 m subject to fire NOC",
                     {<<"max_height", "70">>, <<"units", "m">>,
                      <<"condition", "fire NOC">>}) >>] >>

build_examples ==
    << [text |-> "Section 10: FSI. In Residential Zone (R), ...",
        extractions |->
          << Example("section", "Section 10: FSI", {}),
             Example("fsi_rule", "FSI up to 2.0 is permitted",
                     {<<"max_fsi", "2.0">>, <<"zone", "R">>}),
             Example("setback_rule",
                     "Front setback 6 m for roads > 18 m; side and rear 3 m",
                     {<<"front", "6 m">>, <<"side", "3 m">>,
                      <<"rear", "3 m">>, <<"units", "m">>}),
             Example("height_rule", "Max building height 70 m subject to fire NOC",
                     {<<"max_height", "70">>, <<"units", "m">>,
                      <<"condition", "fire NOC">>}),
             Example("penalty", "Fine Rs. 5000",
                     {<<"penalty_type", "Fine">>, <<"amount", "Rs. 5000">>}) >>] >>

-----------------------------------------------------------------------------
(* The backend's answers and the files of the output directory *)

Extraction(class, span) == [extraction_class |-> class, extraction_text |-> span]

\* Extractions a model may return: spans are code point sequences
ExtractionPool ==
    {Extraction("section", <<65, 66>>),
     Extraction("fsi_rule", <<66, 65>>)}

\* The annotated documents lx.extract may return for a text
BackendResults(t) ==
    {[kind |-> "AnnotatedDocument", text |-> t, extractions |-> es] :
        es \in SeqsUpTo(ExtractionPool, MaxExtractions)}

JsonlFile(docs) == [kind |-> "jsonl", docs |-> docs]
HtmlFile(html) == [kind |-> "html", html |-> html]

\* lx.visualize: a page built from the first document of the JSONL file
render(docs) == <<[tag |-> "lx-animated-wrapper", doc |-> docs[1]]>>

\* the file system after a write to p (open(..., "w") truncates)
WriteFile(fs, p, c) ==
    [q \in DOMAIN fs \cup {p} |-> IF q = p THEN c ELSE fs[q]]

NoError == [type |-> "-", message |-> "-", path |-> <<>>]
Error(t, m, p) == [type |-> t, message |-> m, path |-> p]

Stage(name, ok) == [stage |-> name, ok |-> ok]

-----------------------------------------------------------------------------
(* Initial states: a shell environment, a .env file and a disk *)

TxtPath == Cwd \o <<"tests", "sample_bmc_bye_laws.txt">>
PdfPath == Cwd \o <<"docs", "bye_laws.PDF">>

\* the shell sets no input path: the default or the .env file decides it
ShellEnvs ==
    {[v \in VarNames |->
        CASE v = "BMC_BYELAWS_PATH"     -> Unset
          [] v = "OUTPUT_DIR"           -> o
          [] v = "LANGEXTRACT_MODEL_ID" -> m] :
     o \in {Unset, "build/out"},
     m \in {Unset, "gemini-2.5-flash"}}

DotenvFiles ==
    {[v \in VarNames |->
        CASE v = "BMC_BYELAWS_PATH"     -> p
          [] v = "OUTPUT_DIR"           -> o
          [] v = "LANGEXTRACT_MODEL_ID" -> m] :
     p \in {Unset, "docs/bye_laws.PDF"},
     o \in {Unset, "/srv/reports"},
     m \in {Unset, "gemma2:2b"}}

\* "A<FF>B": one undecodable byte between two letters
SampleBytes == <<65, 255, 66>>

\* three pages, the second of which raises in extract_text
SamplePages == <<PageText(<<65>>), PageRaises, PageText(<<66>>)>>

\* both input files on disk, or neither
Disks ==
    {[p \in ps |-> IF p = TxtPath THEN TextFile(SampleBytes) ELSE PdfFile(SamplePages)] :
     ps \in {{}, {TxtPath, PdfPath}}}

InitialDirs == {<<"/">>, Cwd, Cwd \o <<"tests">>, Cwd \o <<"docs">>}

\* A new interpreter: nothing imported, no local bound
FreshProcess ==
    /\ pc' = "import"
    /\ osEnviron' = shellEnv
    /\ DEFAULT_MODEL_ID' = Unset
    /\ PdfReader' = FALSE
    /\ input_path' = <<>>
    /\ output_dir' = <<>>
    /\ output_html' = <<>>
    /\ text' = <<>>
    /\ prompt' = None
    /\ examples' = <<>>
    /\ request' = None
    /\ result' = None
    /\ jsonl_path' = <<>>
    /\ error' = NoError
    /\ stages' = <<>>
    /\ reads' = 0
    /\ calls' = 0
    /\ written' = {}
    /\ madeDirs' = {}
    /\ stdout' = <<>>

Init ==
    /\ shellEnv \in ShellEnvs
    /\ dotenvFile \in DotenvFiles
    /\ files \in Disks
    /\ dirs = InitialDirs
    /\ run = 1
    /\ filesAtStart = files
    /\ pc = "import"
    /\ osEnviron = shellEnv
    /\ DEFAULT_MODEL_ID = Unset
    /\ PdfReader = FALSE
    /\ input_path = <<>>
    /\ output_dir = <<>>
    /\ output_html = <<>>
    /\ text = <<>>
    /\ prompt = None
    /\ examples = <<>>
    /\ request = None
    /\ result = None
    /\ jsonl_path = <<>>
    /\ error = NoError
    /\ stages = <<>>
    /\ reads = 0
    /\ calls = 0
    /\ written = {}
    /\ madeDirs = {}
    /\ stdout = <<>>

disk == <<shellEnv, dotenvFile, dirs, files, run, filesAtStart>>
config == <<osEnviron, DEFAULT_MODEL_ID, PdfReader, input_path, output_dir, output_html>>

\* An uncaught exception ends the run
Fatal(e) == pc' = "fatal" /\ error' = e

-----------------------------------------------------------------------------
(* Module import, lines 1-23 *)

Import ==
    /\ pc = "import"
    /\ PdfReader' \in BOOLEAN
    /\ DEFAULT_MODEL_ID' = getenv(osEnviron, "LANGEXTRACT_MODEL_ID", "llama3.2:1b")
    /\ pc' = "main"
    /\ UNCHANGED <<disk, osEnviron, input_path, output_dir, output_html, text,
                   prompt, examples, request, result, jsonl_path, error, stages,
                   reads, calls, written, madeDirs, stdout>>

-----------------------------------------------------------------------------
(* main, lines 130-136: configuration and the existence check *)

\* main without the check of lines 135-136
MainConfigUnchecked ==
    /\ pc = "main"
    /\ osEnviron' = load_dotenv(osEnviron, dotenvFile)
    /\ input_path' = resolve(PathOf(getenv(osEnviron', "BMC_BYELAWS_PATH",
                                           "tests/sample_bmc_bye_laws.txt")))
    /\ output_dir' = resolve(PathOf(getenv(osEnviron', "OUTPUT_DIR", "outputs")))
    /\ output_html' = resolve(output_dir' \o <<"visualization.html">>)
    /\ pc' = "read"
    /\ UNCHANGED <<disk, DEFAULT_MODEL_ID, PdfReader, text, prompt, examples,
                   request, result, jsonl_path, error, stages, reads, calls,
                   written, madeDirs, stdout>>

MainConfig ==
    /\ pc = "main"
    /\ osEnviron' = load_dotenv(osEnviron, dotenvFile)
    /\ input_path' = resolve(PathOf(getenv(osEnviron', "BMC_BYELAWS_PATH",
                                           "tests/sample_bmc_bye_laws.txt")))
    /\ output_dir' = resolve(PathOf(getenv(osEnviron', "OUTPUT_DIR", "outputs")))
    /\ output_html' = resolve(output_dir' \o <<"visualization.html">>)
    /\ IF ~exists(dirs, files, input_path')
       THEN Fatal(Error("SystemExit", "Input text file not found: ", input_path'))
       ELSE pc' = "read" /\ error' = error
    /\ UNCHANGED <<disk, DEFAULT_MODEL_ID, PdfReader, text, prompt, examples,
                   request, result, jsonl_path, stages, reads, calls,
                   written, madeDirs, stdout>>

-----------------------------------------------------------------------------
(* _read_text, lines 85-97, called at line 138 *)

ReadPdf ==
    /\ pc = "read"
    /\ suffix_lower(input_path) = ".pdf"
    /\ IF ~PdfReader
       THEN /\ Fatal(Error("SystemExit", "pypdf not installed.", <<>>))
            /\ stages' = Append(stages, Stage("Loader", FALSE))
            /\ UNCHANGED <<text, reads>>
       ELSE IF input_path \notin DOMAIN files
       THEN /\ Fatal(Error("FileNotFoundError", "-", input_path))
            /\ reads' = reads + 1
            /\ stages' = Append(stages, Stage("Loader", FALSE))
            /\ text' = text
       ELSE /\ text' = read_pdf(files[input_path].pages)
            /\ reads' = reads + 1
            /\ stages' = Append(stages, Stage("Loader", TRUE))
            /\ pc' = "build"
            /\ error' = error
    /\ UNCHANGED <<disk, config, prompt, examples, request, result, jsonl_path,
                   calls, written, madeDirs, stdout>>

ReadTextFile ==
    /\ pc = "read"
    /\ suffix_lower(input_path) # ".pdf"
    /\ reads' = reads + 1
    /\ IF input_path \notin DOMAIN files
       THEN /\ Fatal(Error("FileNotFoundError", "-", input_path))
            /\ stages' = Append(stages, Stage("Loader", FALSE))
            /\ text' = text
       ELSE /\ text' = read_text(files[input_path].bytes)
            /\ stages' = Append(stages, Stage("Loader", TRUE))
            /\ pc' = "build"
            /\ error' = error
    /\ UNCHANGED <<disk, config, prompt, examples, request, result, jsonl_path,
                   calls, written, madeDirs, stdout>>

-----------------------------------------------------------------------------
(* extract, lines 100-110, called at line 139 *)

Build ==
    /\ pc = "build"
    /\ prompt' = build_prompt
    /\ examples' = build_examples
    /\ stages' = Append(stages, Stage("Builder", TRUE))
    /\ pc' = "call"
    /\ UNCHANGED <<disk, config, text, request, result, jsonl_path, error,
                   reads, calls, written, madeDirs, stdout>>

\* The model id main's call sends: main passes none, so it is the default
\* of the parameter, the module global bound at import
model_id_sent == DEFAULT_MODEL_ID

\* extract with the call retried after a failure
CallBackendRetrying ==
    /\ pc = "call"
    /\ request' = [text_or_documents |-> text,
                   prompt_description |-> prompt,
                   examples |-> examples,
                   model_id |-> model_id_sent,
                   fence_output |-> FALSE]
    /\ calls' = calls + 1
    /\ \/ /\ result' \in BackendResults(text)
          /\ stages' = Append(stages, Stage("Client", TRUE))
          /\ pc' = "save"
       \/ /\ calls < 2
          /\ stages' = Append(stages, Stage("Client", FALSE))
          /\ UNCHANGED <<result, pc>>
    /\ UNCHANGED <<disk, config, text, prompt, examples, jsonl_path, reads,
                   written, madeDirs, stdout, error>>

CallBackend ==
    /\ pc = "call"
    /\ request' = [text_or_documents |-> text,
                   prompt_description |-> prompt,
                   examples |-> examples,
                   model_id |-> model_id_sent,
                   fence_output |-> FALSE]
    /\ calls' = calls + 1
    /\ \/ /\ result' \in BackendResults(text)
          /\ stages' = Append(stages, Stage("Client", TRUE))
          /\ pc' = "save"
          /\ error' = error
       \/ /\ Fatal(Error("BackendError", "-", <<>>))
          /\ stages' = Append(stages, Stage("Client", FALSE))
          /\ result' = result
    /\ UNCHANGED <<disk, config, text, prompt, examples, jsonl_path, reads,
                   written, madeDirs, stdout>>

-----------------------------------------------------------------------------
(* save_results, lines 113-120, called at line 140 *)

\* output_dir.mkdir(parents=True), exist_ok left at its default
make_output_dir_strict(ds, fs, p) == mkdir(ds, fs, p, TRUE, FALSE)

\* output_dir.mkdir(parents=True, exist_ok=True)
make_output_dir(ds, fs, p) == mkdir(ds, fs, p, TRUE, TRUE)

\* What lx.io.save_annotated_documents did: wrote the file, returned having
\* written nothing, or raised
SaveOutcomes == {"written", "nofile", "raise"}

\* save_results without the check of line 118
results_missing_unchecked(ds, fs, p) == FALSE

\* the check of line 118
results_missing(ds, fs, p) == ~exists(ds, fs, p)

SaveResults ==
    /\ pc = "save"
    /\ LET od == resolve(output_dir)
           made == make_output_dir(dirs, files, od)
           jp == resolve(od \o <<"results.jsonl">>)
       IN  IF ~made.ok
           THEN /\ Fatal(Error(made.error, "-", od))
                /\ stages' = Append(stages, Stage("Writer", FALSE))
                /\ UNCHANGED <<dirs, files, madeDirs, written, jsonl_path>>
           ELSE /\ dirs' = made.dirs
                /\ madeDirs' = madeDirs \cup (made.dirs \ dirs)
                /\ \E outcome \in SaveOutcomes :
                    /\ files' = IF outcome = "written"
                                THEN WriteFile(files, jp, JsonlFile(<<result>>))
                                ELSE files
                    /\ written' = IF outcome = "written"
                                  THEN written \cup {jp} ELSE written
                    /\ IF outcome = "raise"
                       THEN /\ Fatal(Error("SerializationError", "-", jp))
                            /\ stages' = Append(stages, Stage("Writer", FALSE))
                            /\ jsonl_path' = jsonl_path
                       ELSE IF results_missing(dirs', files', jp)
                       THEN /\ Fatal(Error("FileNotFoundError",
                                           "Expected results not found at ", jp))
                            /\ stages' = Append(stages, Stage("Writer", FALSE))
                            /\ jsonl_path' = jsonl_path
                       ELSE /\ jsonl_path' = jp
                            /\ stages' = Append(stages, Stage("Writer", TRUE))
                            /\ pc' = "visualize"
                            /\ error' = error
    /\ UNCHANGED <<shellEnv, dotenvFile, run, filesAtStart, config, text,
                   prompt, examples, request, result, reads, calls, stdout>>

-----------------------------------------------------------------------------
(* visualize, lines 123-126, called at line 141 *)

\* write_text of an empty string instead of html_content
write_html_empty(fs, p, html_content) == WriteFile(fs, p, HtmlFile(<<>>))

\* output_html.write_text(html_content, encoding="utf-8")
write_html(fs, p, html_content) == WriteFile(fs, p, HtmlFile(html_content))

Visualize ==
    /\ pc = "visualize"
    /\ LET jp == resolve(jsonl_path)
           made == mkdir(dirs, files, Parent(output_html), TRUE, TRUE)
       IN  \/ /\ jp \in DOMAIN files
              /\ made.ok
              /\ dirs' = made.dirs
              /\ madeDirs' = madeDirs \cup (made.dirs \ dirs)
              /\ files' = write_html(files, output_html, render(files[jp].docs))
              /\ written' = written \cup {output_html}
              /\ stages' = Append(stages, Stage("Visualizer", TRUE))
              /\ pc' = "print"
              /\ error' = error
           \/ /\ Fatal(Error("RenderError", "-", jp))
              /\ stages' = Append(stages, Stage("Visualizer", FALSE))
              /\ UNCHANGED <<dirs, files, madeDirs, written>>
    /\ UNCHANGED <<shellEnv, dotenvFile, run, filesAtStart, config, text,
                   prompt, examples, request, result, jsonl_path, reads, calls,
                   stdout>>

-----------------------------------------------------------------------------
(* main, lines 143-144 *)

PrintSuccess ==
    /\ pc = "print"
    /\ stdout' = <<[line |-> "Saved JSONL: ", path |-> jsonl_path],
                   [line |-> "Saved HTML visualization: ", path |-> output_html]>>
    /\ pc' = "done"
    /\ UNCHANGED <<disk, config, text, prompt, examples, request, result,
                   jsonl_path, error, stages, reads, calls, written, madeDirs>>

-----------------------------------------------------------------------------
(* The script is run again: same shell environment, same .env, same disk *)

Rerun ==
    /\ pc \in {"done", "fatal"}
    /\ run < MaxRuns
    /\ run' = run + 1
    /\ filesAtStart' = files
    /\ FreshProcess
    /\ UNCHANGED <<shellEnv, dotenvFile, dirs, files>>

Next ==
    \/ Import
    \/ MainConfig
    \/ ReadPdf
    \/ ReadTextFile
    \/ Build
    \/ CallBackend
    \/ SaveResults
    \/ Visualize
    \/ PrintSuccess
    \/ Rerun

Spec == Init /\ [][Next]_vars

-----------------------------------------------------------------------------
(* _read_text on arbitrary inputs: every byte sequence up to MaxBytes over *)
(* ByteAlphabet, every page sequence up to MaxPages over PageOutcomes.     *)
(* The run then goes on into extract.                                      *)

\* 'A', CR, LF, C3 A9 (e acute), E2 82 AC (euro sign), FF (never valid)
ByteAlphabet == {65, CR, LF, 195, 169, 226, 130, 172, 255}

PageOutcomes ==
    {PageText(<<65>>), PageText(<<66, LF>>), PageText(<<>>), PageNone, PageRaises}

InitRead ==
    /\ shellEnv = [v \in VarNames |-> Unset]
    /\ dotenvFile = [v \in VarNames |-> Unset]
    /\ dirs = InitialDirs
    /\ \/ /\ \E bs \in SeqsUpTo(ByteAlphabet, MaxBytes) :
                files = [p \in {TxtPath} |-> TextFile(bs)]
          /\ input_path = TxtPath
       \/ /\ \E ps \in SeqsUpTo(PageOutcomes, MaxPages) :
                files = [p \in {PdfPath} |-> PdfFile(ps)]
          /\ input_path = PdfPath
    /\ PdfReader \in BOOLEAN
    /\ run = 1
    /\ filesAtStart = files
    /\ pc = "read"
    /\ osEnviron = shellEnv
    /\ DEFAULT_MODEL_ID = "llama3.2:1b"
    /\ output_dir = resolve(PathOf("outputs"))
    /\ output_html = resolve(output_dir \o <<"visualization.html">>)
    /\ text = <<>>
    /\ prompt = None
    /\ examples = <<>>
    /\ request = None
    /\ result = None
    /\ jsonl_path = <<>>
    /\ error = NoError
    /\ stages = <<>>
    /\ reads = 0
    /\ calls = 0
    /\ written = {}
    /\ madeDirs = {}
    /\ stdout = <<>>

NextRead ==
    \/ ReadPdf
    \/ ReadTextFile
    \/ Build

SpecRead == InitRead /\ [][NextRead]_vars

-----------------------------------------------------------------------------
(* Properties *)

StageOrder == <<"Loader", "Builder", "Client", "Writer", "Visualizer">>

\* the fixed path of results.jsonl for the configured output directory
ResultsPath == resolve(output_dir \o <<"results.jsonl">>)

Configured == pc \notin {"import", "main"}

InputMissing == ~exists(dirs, files, input_path)

Executed(name) == \E i \in 1..Len(stages) : stages[i].stage = name

Succeeded(name) ==
    \E i \in 1..Len(stages) : stages[i].stage = name /\ stages[i].ok

IsTextInput == Configured /\ suffix_lower(input_path) # ".pdf"

IsPdfInput == Configured /\ suffix_lower(input_path) = ".pdf"

\* C1: when the resolved input path does not exist, the run has ended with
\* SystemExit naming that path, before any read, backend call or write: no
\* stage ran, no directory was created and no file was written.
C1_MissingInputIsFatal ==
    (Configured /\ InputMissing) =>
        /\ pc = "fatal"
        /\ error.type = "SystemExit"
        /\ error.message = "Input text file not found: "
        /\ error.path = input_path
        /\ input_path = resolve(PathOf(getenv(osEnviron, "BMC_BYELAWS_PATH",
                                              "tests/sample_bmc_bye_laws.txt")))
        /\ reads = 0
        /\ calls = 0
        /\ stages = <<>>
        /\ madeDirs = {}
        /\ written = {}
        /\ files = filesAtStart
        /\ stdout = <<>>

C1_Witness ==
    /\ pc = "fatal"
    /\ InputMissing
    /\ error.path = input_path
    /\ osEnviron["BMC_BYELAWS_PATH"] # Unset

\* C3: the stages of a run are a prefix of Loader, Builder, Client, Writer,
\* Visualizer, each at most once, every stage but the last recorded having
\* returned; a failed stage ends the run; a failed backend call is not
\* repeated and no file is written after it.
C3_StagesInOrder ==
    /\ Len(stages) <= Len(StageOrder)
    /\ \A i \in 1..Len(stages) :
          /\ stages[i].stage = StageOrder[i]
          /\ i < Len(stages) => stages[i].ok
    /\ (stages # <<>> /\ ~stages[Len(stages)].ok) => pc = "fatal"
    /\ calls <= 1
    /\ (calls = 1) = Executed("Client")
    /\ (Executed("Client") /\ ~Succeeded("Client")) =>
          /\ pc = "fatal"
          /\ error.type = "BackendError"
          /\ ~Executed("Writer")
          /\ ~Executed("Visualizer")
          /\ written = {}
          /\ files = filesAtStart

C3_Witness ==
    /\ pc = "fatal"
    /\ error.type = "BackendError"
    /\ Len(stages) = 3
    /\ calls = 1

\* The text a page contributes: its extracted text, or nothing when the
\* extraction raised or returned no text
Contribution(page) == IF page.kind = "text" THEN page.text ELSE <<>>

RECURSIVE PageOffset(_, _)
PageOffset(pages, i) ==
    IF i <= 1 THEN 0
    ELSE PageOffset(pages, i - 1) + Len(Contribution(pages[i - 1])) + 2

\* C4: once _read_text has read a PDF of n pages, the text holds the n page
\* contributions in page order, each followed (but the last) by a blank
\* line, a failed or empty page contributing nothing; the read did not fail
\* and the run went on into extract.
C4_PdfPagesJoined ==
    (IsPdfInput /\ PdfReader /\ pc # "read") =>
        LET pages == files[input_path].pages
            n == Len(pages)
        IN  /\ Succeeded("Loader")
            /\ reads = 1
            /\ pc \in {"build", "call"}
            /\ error = NoError
            /\ Len(text) = IF n = 0 THEN 0
                           ELSE PageOffset(pages, n) + Len(Contribution(pages[n]))
            /\ \A i \in 1..n :
                  LET from == PageOffset(pages, i)
                      len == Len(Contribution(pages[i]))
                  IN  /\ SubSeq(text, from + 1, from + len) = Contribution(pages[i])
                      /\ i < n => SubSeq(text, from + len + 1, from + len + 2)
                                     = <<LF, LF>>

C4_Witness ==
    /\ IsPdfInput
    /\ pc = "call"
    /\ Len(files[input_path].pages) = 3
    /\ files[input_path].pages[2] = PageRaises
    /\ files[input_path].pages[1] = PageText(<<65>>)
    /\ files[input_path].pages[3] = PageNone
    /\ text = <<65, LF, LF, LF, LF>>

\* Characters whose encodings lie in ByteAlphabet: 'A', LF, U+00E9, U+20AC
SampleChars == {65, LF, 233, 8364}

\* Every CR byte read as LF, one for one
CrAsLf(bs) == [i \in 1..Len(bs) |-> IF bs[i] = CR THEN LF ELSE bs[i]]

TextReadDone == IsTextInput /\ pc # "read" /\ input_path \in DOMAIN files

\* C5 as stated: the read of a text file does not fail and every undecodable
\* byte has a substitution marker in the text (FF is never decodable), the
\* validly encoded characters being kept.
C5_UndecodableSubstituted ==
    TextReadDone =>
        LET bs == files[input_path].bytes
        IN  /\ Succeeded("Loader")
            /\ Count(REPL, text) >= Count(255, bs)
            /\ Count(65, text) = Count(65, bs)

\* C5, amended: the read of a text file does not fail; the text holds no
\* substitution marker and no CR; it is what is left of the bytes after
\* bytes are dropped and CR is read as LF; a well-formed CR-free input is
\* returned as it is, and so are two well-formed CR-free parts around an
\* undecodable byte, which is dropped.
C5_UndecodableDropped ==
    TextReadDone =>
        LET bs == files[input_path].bytes
        IN  /\ Succeeded("Loader")
            /\ pc \in {"build", "call"}
            /\ error = NoError
            /\ REPL \notin Range(text)
            /\ CR \notin Range(text)
            /\ IsSubsequence(encode_utf8(text), CrAsLf(bs))
            /\ Count(65, text) = Count(65, bs)
            /\ Count(LF, text) <= Count(LF, bs) + Count(CR, bs)
            /\ \A s \in SeqsUpTo(SampleChars, Len(bs)) :
                  encode_utf8(s) = bs => text = s
            /\ \A i \in 1..Len(bs) :
                  bs[i] = 255 =>
                      \A s1 \in SeqsUpTo(SampleChars, i - 1),
                         s2 \in SeqsUpTo(SampleChars, Len(bs) - i) :
                          encode_utf8(s1) \o <<255>> \o encode_utf8(s2) = bs
                              => text = s1 \o s2

C5_Witness ==
    /\ TextReadDone
    /\ files[input_path].bytes = <<65, 255, 13>>
    /\ text = <<65, LF>>
    /\ pc = "call"

Classes(exs) ==
    UNION {{e.extraction_class : e \in Range(ex.extractions)} : ex \in Range(exs)}

\* C6 as stated: the examples built cover each of the seven classes and use
\* no other class.
C6_AllSevenClasses ==
    examples # <<>> => Classes(examples) = AllowedClasses

\* C6, amended: the examples built cover exactly five of the seven classes
\* (section, fsi_rule, setback_rule, height_rule, penalty), none for clause
\* or definition, and use no class outside the seven.
C6_FiveClasses ==
    examples # <<>> =>
        /\ Classes(examples) =
              {"section", "fsi_rule", "setback_rule", "height_rule", "penalty"}
        /\ Classes(examples) \subseteq AllowedClasses
        /\ Len(examples) = 1
        /\ request # None => request.examples = examples

C6_Witness ==
    /\ examples # <<>>
    /\ request # None
    /\ pc = "save"

\* C7: every extraction_text of a results.jsonl written by this run is a
\* contiguous part of the text that was loaded.
C7_SpanFidelity ==
    ResultsPath \in written =>
        \A d \in Range(files[ResultsPath].docs) :
            \A e \in Range(d.extractions) :
                IsSubstring(e.extraction_text, text)

\* C10: the model id sent to the backend is the value LANGEXTRACT_MODEL_ID
\* has in os.environ after main's load_dotenv, llama3.2:1b when it has none.
C10_ModelIdFromEnvironment ==
    request # None =>
        request.model_id =
            getenv(osEnviron, "LANGEXTRACT_MODEL_ID", "llama3.2:1b")

\* an exception raised by the serializer or by the renderer ended the run
CollaboratorRaised == error.type \in {"SerializationError", "RenderError"}

\* The exceptions the serializer and the renderer raise, and the failed
\* check of line 118
WriterOrVisualizerFailure ==
    \/ CollaboratorRaised
    \/ error.message = "Expected results not found at "

C8_NoFileIsFatal ==
    /\ pc \in {"visualize", "print", "done"} => ResultsPath \in DOMAIN files
    /\ (Executed("Writer") /\ ResultsPath \notin written) =>
          pc = "fatal" /\ ~Executed("Visualizer")

\* C8, amended: save_results creates the output directory with its missing
\* parents and returns the fixed path only with results.jsonl existing; when
\* results.jsonl does not exist after the serialization the run has ended
\* fatally, so the visualizer runs, and visualization.html is written, only
\* with results.jsonl existing.  A results.jsonl left by an earlier run
\* passes the check.
C8_MissingFileIsFatal ==
    /\ Executed("Writer") =>
          /\ stages[4].ok =>
                /\ Prefixes(output_dir) \subseteq dirs
                /\ jsonl_path = ResultsPath
                /\ ResultsPath \in DOMAIN files
                /\ files[ResultsPath].kind = "jsonl"
          /\ ~stages[4].ok => pc = "fatal" /\ jsonl_path = <<>>
          /\ ResultsPath \notin DOMAIN files =>
                /\ pc = "fatal"
                /\ error.type \in {"FileNotFoundError", "SerializationError"}
                /\ error.path = ResultsPath
    /\ pc \in {"visualize", "print", "done"} => Succeeded("Writer")
    /\ Executed("Visualizer") => ResultsPath \in DOMAIN files
    /\ output_html \in written => ResultsPath \in DOMAIN files

C8_Witness ==
    /\ pc = "fatal"
    /\ error.message = "Expected results not found at "
    /\ ResultsPath \notin DOMAIN files
    /\ output_dir \in madeDirs
    /\ Parent(output_dir) \in madeDirs

\* the output files were left by an earlier run
OutputsPreexist ==
    /\ ResultsPath \in DOMAIN filesAtStart
    /\ output_html \in DOMAIN filesAtStart

====
